---- MODULE Spec2Model ----
(***************************************************************************)
(* Model of the admin dashboard's session guard (middleware), its login    *)
(* route handler (POST /api/auth/login) and the login page's submit        *)
(* handler.  A browser holds the two cookies; one navigation or one login  *)
(* submission is in flight at a time.  The external API (the /api/auth/me, *)
(* /api/auth/refresh and /api/auth/login endpoints) is the environment:    *)
(* each of its replies is a nondeterministic choice.                       *)
(*                                                                         *)
(* The route matcher, the verification view and the help-requests view     *)
(* share no state with the guard; each has its own specification           *)
(* (MatcherSpec, ViewSpec, HelpSpec) in which the other components rest.   *)
(***************************************************************************)
EXTENDS Naturals, Sequences, FiniteSets

VARIABLES
    nodeEnv,     \* process.env.NODE_ENV of the server process
    jar,         \* the browser's cookies: auth_token, refresh_token
    mwPc,        \* middleware: "idle", "validate", "refresh", "done"
    req,         \* middleware: accessToken / refreshToken read from the request
    verifyOut,   \* middleware: what jwtVerify did for this request
    validateRes, \* middleware: reply of GET /api/auth/me
    refreshResponse, \* middleware: reply of POST /api/auth/refresh
    calls,       \* middleware: fetches issued while handling this request
    res,         \* middleware: the response it returned
    lgPc,        \* login route: "idle", "upstream", "done"
    apiResponse, \* login route: reply of the upstream POST /api/auth/login
    response,    \* login route: the response it returned
    error,       \* login page: the error state
    route,       \* browser: the path being requested or shown
    nav,         \* browser: "requesting" the route, or the page is "loaded"
    redirects,   \* browser: redirects followed in the current navigation
    tolerated,   \* history: the last guarded request carried the jar's
                 \* auth_token and was allowed by external validation
    probe,       \* matcher: the path handed to config.matcher
    guarded,     \* matcher: "unknown", or whether the guard runs on probe
    entries,     \* verification view: useState entries
    isLoading,   \* verification view: useState isLoading
    isRefreshing, \* verification view: useState isRefreshing
    search,      \* verification view: useState search
    statusFilter, \* verification view: useState statusFilter
    loads,       \* verification view: the loadData calls awaiting their fetch
    toast,       \* verification view: the last toast() call
    vvPc,        \* verification view: "rendered", or "mounted" (effect ran)
    newestPending, \* history: the loadData call started last is in flight
    detailOpen,  \* verification view: useState detailOpen
    detailEntry, \* verification view: useState detailEntry
    detailLoading, \* verification view: useState detailLoading
    details,     \* verification view: ids of the openDetails calls awaiting
                 \* their fetch
    newestDetail, \* history: the openDetails call started last is in flight
    hvPc,        \* help-requests view: "unmounted", "fetching", "settled"
    mounted,     \* help-requests view: the effect's mounted flag
    jobs,        \* help-requests view: useState jobs
    applications, \* help-requests view: useState applications
    isLoadingJobs, \* help-requests view: useState isLoadingJobs
    isLoadingApps, \* help-requests view: useState isLoadingApps
    jobsError,   \* help-requests view: useState jobsError
    appsError,   \* help-requests view: useState appsError
    fetched      \* help-requests view: what the two fetches returned

matchVars == <<probe, guarded>>
viewVars  == <<entries, isLoading, isRefreshing, search, statusFilter, loads,
               toast, vvPc, newestPending>>
helpVars  == <<hvPc, mounted, jobs, applications, isLoadingJobs, isLoadingApps,
               jobsError, appsError, fetched>>
detailVars == <<detailOpen, detailEntry, detailLoading, details,
                newestDetail>>
uiVars    == <<matchVars, viewVars, detailVars, helpVars>>

guardVars == <<nodeEnv, jar, mwPc, req, verifyOut, validateRes,
               refreshResponse, calls, res, lgPc, apiResponse, response,
               error, route, nav, redirects, tolerated>>

vars == <<guardVars, uiVars>>

mwVars == <<mwPc, req, verifyOut, validateRes, refreshResponse, calls, res>>
lgVars == <<lgPc, apiResponse, response>>

-----------------------------------------------------------------------------
(* Values.  A cookie value or a token field of a JSON body is undefined,   *)
(* the empty string, a string that is no JWT, or a JWT described by the    *)
(* key that signed it, whether its exp has passed, and its role claim.     *)

Val(kind, key, expired, role) ==
    [kind |-> kind, key |-> key, expired |-> expired, role |-> role]

Undefined == Val("undefined", "-", FALSE, "-")
EmptyStr  == Val("empty", "-", FALSE, "-")
Malformed == Val("malformed", "-", FALSE, "-")
Jwt(key, expired, role) == Val("jwt", key, expired, role)

Keys  == {"local", "other"}
Roles == {"admin", "user", "undefined"}

Jwts == {Jwt(k, e, r) : k \in Keys, e \in BOOLEAN, r \in Roles}

\* what a browser can hold in a cookie
CookieVals == {Undefined, EmptyStr, Malformed} \cup Jwts

\* what the external API puts in accessToken / refreshToken of a body
IssuedVals == {Undefined, EmptyStr,
               Jwt("local", FALSE, "admin"), Jwt("local", FALSE, "user"),
               Jwt("other", FALSE, "admin")}

\* JavaScript truthiness of a string | undefined
Truthy(v) == v.kind \notin {"undefined", "empty"}

JWT_SECRET == "local"

NodeEnvs == {"production", "development"}

-----------------------------------------------------------------------------
(* Responses and cookies.                                                  *)

\* the options object passed to cookies.set, with the cookie's name and value
Cookie(name, value, maxAge, env) ==
    [name |-> name, value |-> value, httpOnly |-> TRUE,
     secure |-> (env = "production"), sameSite |-> "lax",
     maxAge |-> maxAge, path |-> "/"]

AccessMaxAge  == 60 * 15
RefreshMaxAge == 60 * 60 * 24 * 7

NoResponse    == [kind |-> "none", location |-> "-", cookies |-> {}]
\* NextResponse.next()
NextResponse  == [kind |-> "next", location |-> "-", cookies |-> {}]
\* NextResponse.redirect(new URL('/login', req.url))
RedirectLogin == [kind |-> "redirect", location |-> "/login", cookies |-> {}]

-----------------------------------------------------------------------------
(* Paths and the route matcher.  A path is the sequence of its characters. *)

RootPath  == <<"/">>
LoginPath == <<"/", "l", "o", "g", "i", "n">>

\* new URL(location, req.url).pathname
UrlPath(location) == IF location = "/login" THEN LoginPath ELSE RootPath

\* "." of the regular expression: any one character
AnyChar == "ANY"

\* variant: login is missing from the alternatives
Alternatives_NoLogin ==
    { <<"a", "p", "i">>,
      <<"_", "n", "e", "x", "t", "/", "s", "t", "a", "t", "i", "c">>,
      <<"_", "n", "e", "x", "t", "/", "i", "m", "a", "g", "e">>,
      <<"f", "a", "v", "i", "c", "o", "n", AnyChar, "i", "c", "o">> }

\* the alternatives of the negative lookahead
\* (?!api|_next/static|_next/image|favicon.ico|login)
Alternatives ==
    { <<"a", "p", "i">>,
      <<"_", "n", "e", "x", "t", "/", "s", "t", "a", "t", "i", "c">>,
      <<"_", "n", "e", "x", "t", "/", "i", "m", "a", "g", "e">>,
      <<"f", "a", "v", "i", "c", "o", "n", AnyChar, "i", "c", "o">>,
      <<"l", "o", "g", "i", "n">> }

\* the pattern matches at the start of s
LookingAt(s, pattern) ==
    /\ Len(s) >= Len(pattern)
    /\ \A i \in 1..Len(pattern) : pattern[i] = AnyChar \/ s[i] = pattern[i]

\* config.matcher '/((?!...).*)': a "/" followed by anything at whose start
\* none of the alternatives matches
matcher(path) ==
    /\ Len(path) >= 1
    /\ path[1] = "/"
    /\ ~\E alt \in Alternatives : LookingAt(Tail(path), alt)

\* the paths the browser navigates to
NavPaths == {RootPath, LoginPath}

\* the browser gives up a navigation after this many redirects
MaxRedirects == 2

-----------------------------------------------------------------------------
(* The session guard.                                                      *)

NotRun == [ok |-> FALSE, ran |-> FALSE, role |-> "-", code |-> "-"]

\* jose's jwtVerify: the compact form is decoded, the signature is checked
\* against the key, then the exp claim; the payload carries the role claim.
jwtVerify(token, secret) ==
    IF token.kind # "jwt"
      THEN [ok |-> FALSE, ran |-> TRUE, role |-> "-", code |-> "ERR_JWS_INVALID"]
    ELSE IF token.key # secret
      THEN [ok |-> FALSE, ran |-> TRUE, role |-> "-",
            code |-> "ERR_JWS_SIGNATURE_VERIFICATION_FAILED"]
    ELSE IF token.expired
      THEN [ok |-> FALSE, ran |-> TRUE, role |-> "-", code |-> "ERR_JWT_EXPIRED"]
    ELSE [ok |-> TRUE, ran |-> TRUE, role |-> token.role, code |-> "-"]

\* variant: the redirect is taken only when both tokens are missing
NoAccessToken_BothMissing(request) ==
    ~Truthy(request.accessToken) /\ ~Truthy(request.refreshToken)

\* if (!accessToken)
NoAccessToken(request) == ~Truthy(request.accessToken)

\* variant: the role comparison is inverted
VerifiedResponse_Inverted(payload) ==
    IF payload.role = "admin" THEN RedirectLogin ELSE NextResponse

\* variant: only the role "user" is turned away
VerifiedResponse_DenyUserOnly(payload) ==
    IF payload.role = "user" THEN RedirectLogin ELSE NextResponse

\* the try block after a successful jwtVerify: the role check
VerifiedResponse(payload) ==
    IF payload.role # "admin" THEN RedirectLogin ELSE NextResponse

\* Replies of GET /api/auth/me as the guard sees them: fetch throws, a
\* non-success status, a success status whose body is no JSON, is JSON null,
\* is an object without user, or is an object whose user has the given role.
ValidateOut(kind, role) == [kind |-> kind, role |-> role]
NoValidate == ValidateOut("none", "-")
ValidateOutcomes ==
    {ValidateOut(k, "-") : k \in {"throw", "notok", "unparsable", "null", "nouser"}}
    \cup {ValidateOut("user", r) : r \in Roles}

\* variant: the role is read from me.role, which the body does not carry
ValidateConfirmsAdmin_WrongField(out) == FALSE

\* variant: a token validated for an earlier request is remembered
ValidateConfirmsAdmin_Remembered(out) ==
    (out.kind = "user" /\ out.role = "admin") \/ tolerated

\* validateRes.ok, the body parses, and me.user?.role === 'admin'
ValidateConfirmsAdmin(out) == out.kind = "user" /\ out.role = "admin"

\* Replies of POST /api/auth/refresh: fetch throws, a non-success status, a
\* success status whose body is no JSON, is JSON null, or is an object with
\* the fields accessToken and refreshToken (either may be missing).
RefreshOut(kind, a, r) == [kind |-> kind, accessToken |-> a, refreshToken |-> r]
NoRefresh == RefreshOut("none", Undefined, Undefined)
RefreshOutcomes ==
    {RefreshOut(k, Undefined, Undefined) :
        k \in {"throw", "notok", "unparsable", "null"}}
    \cup {RefreshOut("object", a, r) : a \in IssuedVals, r \in IssuedVals}

\* variant: the refresh_token cookie gets the access token's max-age
RefreshCookies_SameMaxAge(data, env) ==
    (IF Truthy(data.accessToken)
       THEN {Cookie("auth_token", data.accessToken, AccessMaxAge, env)} ELSE {})
    \cup
    (IF Truthy(data.refreshToken)
       THEN {Cookie("refresh_token", data.refreshToken, AccessMaxAge, env)}
       ELSE {})

\* the cookies set on the response after refreshResponse.json()
RefreshCookies(data, env) ==
    (IF Truthy(data.accessToken)
       THEN {Cookie("auth_token", data.accessToken, AccessMaxAge, env)} ELSE {})
    \cup
    (IF Truthy(data.refreshToken)
       THEN {Cookie("refresh_token", data.refreshToken, RefreshMaxAge, env)}
       ELSE {})

\* variant: refreshResponse.ok is not checked
RefreshResult_NoOkCheck(out, env) ==
    IF out.kind \in {"object", "notok"}
      THEN [NextResponse EXCEPT !.cookies = RefreshCookies(out, env)]
      ELSE RedirectLogin

\* variant: the final redirect clears the two cookies
RefreshResult_ClearOnRedirect(out, env) ==
    IF out.kind = "object"
      THEN [NextResponse EXCEPT !.cookies = RefreshCookies(out, env)]
      ELSE [RedirectLogin EXCEPT !.cookies =
                {Cookie("auth_token", EmptyStr, 0, env),
                 Cookie("refresh_token", EmptyStr, 0, env)}]

\* variant: data.accessToken is read outside the try block, so a null body
\* throws out of middleware
RefreshResult_NullBodyThrows(out, env) ==
    IF out.kind = "object"
      THEN [NextResponse EXCEPT !.cookies = RefreshCookies(out, env)]
    ELSE IF out.kind = "null"
      THEN [kind |-> "exception", location |-> "-", cookies |-> {}]
    ELSE RedirectLogin

\* the refresh try block and the final redirect
RefreshResult(out, env) ==
    IF out.kind = "object"
      THEN [NextResponse EXCEPT !.cookies = RefreshCookies(out, env)]
      ELSE RedirectLogin

\* middleware(req) up to its first fetch: the cookies are read, a missing
\* access token is redirected, the token is verified locally, and when that
\* throws the validation request is sent.
middleware ==
    /\ mwPc = "idle" /\ lgPc = "idle"
    /\ nav = "requesting" /\ matcher(route)
    /\ LET request == [accessToken |-> jar.auth_token,
                       refreshToken |-> jar.refresh_token]
           v == jwtVerify(jar.auth_token, JWT_SECRET)
       IN /\ req' = request
          /\ validateRes' = NoValidate
          /\ refreshResponse' = NoRefresh
          /\ IF NoAccessToken(request)
               THEN /\ verifyOut' = NotRun
                    /\ calls' = << >>
                    /\ res' = RedirectLogin
                    /\ mwPc' = "done"
             ELSE IF v.ok
               THEN /\ verifyOut' = v
                    /\ calls' = << >>
                    /\ res' = VerifiedResponse(v)
                    /\ mwPc' = "done"
             ELSE /\ verifyOut' = v
                  /\ calls' = <<"validate">>
                  /\ res' = NoResponse
                  /\ mwPc' = "validate"
    /\ UNCHANGED <<nodeEnv, jar, lgVars, error, route, nav, redirects,
                   tolerated, uiVars>>

\* variant: the refresh request is sent without looking at refreshToken
ValidateReply_AlwaysRefresh(out) ==
    /\ mwPc = "validate"
    /\ validateRes' = out
    /\ IF out.kind = "user" /\ out.role = "admin"
         THEN /\ res' = NextResponse
              /\ mwPc' = "done"
              /\ UNCHANGED calls
         ELSE /\ calls' = Append(calls, "refresh")
              /\ mwPc' = "refresh"
              /\ UNCHANGED res
    /\ UNCHANGED <<nodeEnv, jar, req, verifyOut, refreshResponse, lgVars,
                   error, route, nav, redirects, tolerated, uiVars>>

\* the validation reply arrives: allow when it confirms admin, otherwise send
\* the refresh request when a refresh token is there, otherwise redirect
ValidateReply(out) ==
    /\ mwPc = "validate"
    /\ validateRes' = out
    /\ IF ValidateConfirmsAdmin(out)
         THEN /\ res' = NextResponse
              /\ mwPc' = "done"
              /\ UNCHANGED calls
       ELSE IF Truthy(req.refreshToken)
         THEN /\ calls' = Append(calls, "refresh")
              /\ mwPc' = "refresh"
              /\ UNCHANGED res
       ELSE /\ res' = RedirectLogin
            /\ mwPc' = "done"
            /\ UNCHANGED calls
    /\ UNCHANGED <<nodeEnv, jar, req, verifyOut, refreshResponse, lgVars,
                   error, route, nav, redirects, tolerated, uiVars>>

\* the refresh reply arrives
RefreshReply(out) ==
    /\ mwPc = "refresh"
    /\ refreshResponse' = out
    /\ res' = RefreshResult(out, nodeEnv)
    /\ mwPc' = "done"
    /\ UNCHANGED <<nodeEnv, jar, req, verifyOut, validateRes, calls, lgVars,
                   error, route, nav, redirects, tolerated, uiVars>>

\* the browser stores the response's cookies
CookieValue(cookies, n, old) ==
    IF \E c \in cookies : c.name = n
      THEN (CHOOSE c \in cookies : c.name = n).value
      ELSE old

StoreCookies(j, cookies) ==
    [auth_token    |-> CookieValue(cookies, "auth_token", j.auth_token),
     refresh_token |-> CookieValue(cookies, "refresh_token", j.refresh_token)]

\* the user opens a path: a new navigation starts
Navigate(path) ==
    /\ nav = "loaded" /\ mwPc = "idle" /\ lgPc = "idle"
    /\ route' = path
    /\ nav' = "requesting"
    /\ redirects' = 0
    /\ UNCHANGED <<nodeEnv, jar, mwVars, lgVars, error, tolerated, uiVars>>

\* a request for a path the matcher excludes is served without the guard
ServeUnguarded ==
    /\ nav = "requesting" /\ ~matcher(route)
    /\ nav' = "loaded"
    /\ UNCHANGED <<nodeEnv, jar, mwVars, lgVars, error, route, redirects,
                   tolerated, uiVars>>

\* the browser receives the guard's response: it stores the cookies, shows
\* the page, or follows the redirect with a new request
BrowserReceives ==
    /\ mwPc = "done"
    /\ jar' = StoreCookies(jar, res.cookies)
    /\ IF res.kind = "redirect" /\ redirects < MaxRedirects
         THEN /\ route' = UrlPath(res.location)
              /\ redirects' = redirects + 1
              /\ nav' = "requesting"
         ELSE /\ nav' = "loaded"
              /\ UNCHANGED <<route, redirects>>
    /\ tolerated' = (/\ res.kind = "next"
                     /\ res.cookies = {}
                     /\ validateRes.kind = "user"
                     /\ validateRes.role = "admin")
    /\ mwPc' = "idle"
    /\ req' = [accessToken |-> Undefined, refreshToken |-> Undefined]
    /\ verifyOut' = NotRun
    /\ validateRes' = NoValidate
    /\ refreshResponse' = NoRefresh
    /\ calls' = << >>
    /\ res' = NoResponse
    /\ UNCHANGED <<nodeEnv, lgVars, error, uiVars>>

-----------------------------------------------------------------------------
(* The login route handler and the login page.                             *)

NoUser     == [defined |-> FALSE, role |-> "-"]
User(role) == [defined |-> TRUE, role |-> role]
UserVals   == {NoUser} \cup {User(r) : r \in Roles}

\* data.message: undefined, the empty string, or a text
MessageVals == {"undefined", "", "Account locked"}

\* Replies of the upstream POST /api/auth/login: fetch throws, or a status
\* with a body that is no JSON, is JSON null, or is an object.
ApiOut(kind, status, body, message, user, a, r) ==
    [kind |-> kind, status |-> status, body |-> body, message |-> message,
     user |-> user, accessToken |-> a, refreshToken |-> r]
NoApi == ApiOut("none", 0, "-", "undefined", NoUser, Undefined, Undefined)

Statuses == {200, 201, 304, 401, 503}

LoginVals == {Undefined, Jwt("local", FALSE, "admin")}

ApiOutcomes ==
    {ApiOut("throw", 0, "-", "undefined", NoUser, Undefined, Undefined)}
    \cup {ApiOut("http", st, b, "undefined", NoUser, Undefined, Undefined) :
            st \in Statuses, b \in {"unparsable", "null"}}
    \cup {ApiOut("http", st, "object", m, u, a, r) :
            st \in Statuses, m \in MessageVals, u \in UserVals,
            a \in LoginVals, r \in LoginVals}

\* Response.ok
Ok(status) == status >= 200 /\ status <= 299

Body(success, message, user, a, r) ==
    [success |-> success, message |-> message, user |-> user,
     accessToken |-> a, refreshToken |-> r]

Json(status, body, cookies) ==
    [status |-> status, body |-> body, cookies |-> cookies]

NoLoginResponse ==
    Json(0, Body(FALSE, "-", NoUser, Undefined, Undefined), {})

\* the catch block: status 500
InternalServerError ==
    Json(500, Body(FALSE, "Internal server error", NoUser, Undefined, Undefined), {})

\* data.message || 'Invalid credentials'
MessageOr(message) ==
    IF message \in {"undefined", ""} THEN "Invalid credentials" ELSE message

\* cookies.set with an undefined value writes the cookie with an empty value
SetValue(v) == IF v.kind = "undefined" THEN EmptyStr ELSE v

\* variant: only the access token cookie is set
LoginCookies_AccessOnly(data, env) ==
    {Cookie("auth_token", SetValue(data.accessToken), AccessMaxAge, env)}

\* the two cookies.set calls of the login route
LoginCookies(data, env) ==
    {Cookie("auth_token", SetValue(data.accessToken), AccessMaxAge, env),
     Cookie("refresh_token", SetValue(data.refreshToken), RefreshMaxAge, env)}

\* a status with which a Response cannot carry a body: NextResponse.json
\* throws for it
NullBodyStatus(status) == status \in {101, 204, 205, 304}

\* variant: the role check comes before the apiResponse.ok check
LoginResult_RoleFirst(out, env) ==
    IF out.kind = "throw" \/ out.body \in {"unparsable", "null"}
      THEN InternalServerError
    ELSE IF out.user.role # "admin"
      THEN Json(403,
                Body(FALSE, "Unauthorized: Admin access only", NoUser,
                     Undefined, Undefined),
                {})
    ELSE IF ~Ok(out.status)
      THEN IF NullBodyStatus(out.status)
             THEN InternalServerError
             ELSE Json(out.status,
                       Body(FALSE, MessageOr(out.message), NoUser, Undefined,
                            Undefined),
                       {})
    ELSE Json(200,
              Body(TRUE, "-", out.user, out.accessToken, out.refreshToken),
              LoginCookies(out, env))

\* variant: the cookies are set before the role check, on the 403 too
LoginResult_CookiesBeforeRoleCheck(out, env) ==
    IF out.kind = "throw" \/ out.body \in {"unparsable", "null"}
      THEN InternalServerError
    ELSE IF ~Ok(out.status)
      THEN IF NullBodyStatus(out.status)
             THEN InternalServerError
             ELSE Json(out.status,
                       Body(FALSE, MessageOr(out.message), NoUser, Undefined,
                            Undefined),
                       {})
    ELSE IF out.user.role # "admin"
      THEN Json(403,
                Body(FALSE, "Unauthorized: Admin access only", NoUser,
                     Undefined, Undefined),
                LoginCookies(out, env))
    ELSE Json(200,
              Body(TRUE, "-", out.user, out.accessToken, out.refreshToken),
              LoginCookies(out, env))

\* POST from `const data = await apiResponse.json()` to its return; whatever
\* throws on the way (fetch, json(), data.message of null, NextResponse.json
\* with a null-body status) ends in the catch block
LoginResult(out, env) ==
    IF out.kind = "throw" \/ out.body \in {"unparsable", "null"}
      THEN InternalServerError
    ELSE IF ~Ok(out.status)
      THEN IF NullBodyStatus(out.status)
             THEN InternalServerError
             ELSE Json(out.status,
                       Body(FALSE, MessageOr(out.message), NoUser, Undefined,
                            Undefined),
                       {})
    ELSE IF out.user.role # "admin"
      THEN Json(403,
                Body(FALSE, "Unauthorized: Admin access only", NoUser,
                     Undefined, Undefined),
                {})
    ELSE Json(200,
              Body(TRUE, "-", out.user, out.accessToken, out.refreshToken),
              LoginCookies(out, env))

\* handleLogin up to its fetch: the error is cleared and the form is posted
handleLogin ==
    /\ lgPc = "idle" /\ mwPc = "idle"
    /\ nav = "loaded" /\ route = LoginPath
    /\ error' = ""
    /\ lgPc' = "posted"
    /\ UNCHANGED <<nodeEnv, jar, mwVars, apiResponse, response, route, nav,
                   redirects, tolerated, uiVars>>

\* POST up to its fetch: the request body is read (this may throw) and the
\* upstream login request is sent
POST(bodyReads) ==
    /\ lgPc = "posted"
    /\ IF bodyReads
         THEN /\ lgPc' = "upstream"
              /\ UNCHANGED response
         ELSE /\ lgPc' = "done"
              /\ response' = InternalServerError
    /\ UNCHANGED <<nodeEnv, jar, mwVars, apiResponse, error, route, nav,
                   redirects, tolerated, uiVars>>

\* the upstream reply arrives and POST returns
UpstreamReply(out) ==
    /\ lgPc = "upstream"
    /\ apiResponse' = out
    /\ response' = LoginResult(out, nodeEnv)
    /\ lgPc' = "done"
    /\ UNCHANGED <<nodeEnv, jar, mwVars, error, route, nav, redirects,
                   tolerated, uiVars>>

\* the rest of handleLogin: the browser stores the cookies, then response.ok
\* pushes the dashboard route (a new navigation), anything else sets the
\* error
LoginResponseArrives ==
    /\ lgPc = "done"
    /\ jar' = StoreCookies(jar, response.cookies)
    /\ IF Ok(response.status)
         THEN /\ route' = RootPath
              /\ nav' = "requesting"
              /\ redirects' = 0
              /\ UNCHANGED error
         ELSE /\ error' = "invalid"
              /\ UNCHANGED <<route, nav, redirects>>
    /\ tolerated' = (tolerated /\ response.cookies = {})
    /\ lgPc' = "idle"
    /\ apiResponse' = NoApi
    /\ response' = NoLoginResponse
    /\ UNCHANGED <<nodeEnv, mwVars, uiVars>>

-----------------------------------------------------------------------------
(* The other components at rest.                                           *)

MatchRest == probe = RootPath /\ guarded = "unknown"

\* const mockData: VerificationEntry[] = []
mockData == << >>

NoToast == [title |-> "none", count |-> 0]

ViewRest ==
    /\ entries = << >>
    /\ isLoading = TRUE
    /\ isRefreshing = FALSE
    /\ search = << >>
    /\ statusFilter = "all"
    /\ loads = << >>
    /\ toast = NoToast
    /\ vvPc = "rendered"
    /\ newestPending = FALSE

\* a reply of one of the two fetches of fetchAll; "none": not there yet
Reply(kind, list) == [kind |-> kind, list |-> list]

NoFetch == [jobs |-> Reply("none", << >>), apps |-> Reply("none", << >>)]

\* useState(null) of detailEntry, and what openDetails may store in it: the
\* entry of an id, or the reply object itself when it has no data field
Detail(kind, id) == [kind |-> kind, id |-> id]

NoDetail == Detail("null", 0)

DetailRest ==
    /\ detailOpen = FALSE
    /\ detailEntry = NoDetail
    /\ detailLoading = FALSE
    /\ details = << >>
    /\ newestDetail = FALSE

HelpRest ==
    /\ hvPc = "unmounted"
    /\ mounted = FALSE
    /\ jobs = << >>
    /\ applications = << >>
    /\ isLoadingJobs = FALSE
    /\ isLoadingApps = FALSE
    /\ jobsError = "null"
    /\ appsError = "null"
    /\ fetched = NoFetch

-----------------------------------------------------------------------------

Init ==
    /\ nodeEnv \in NodeEnvs
    /\ jar \in [auth_token : CookieVals, refresh_token : CookieVals]
    /\ mwPc = "idle"
    /\ req = [accessToken |-> Undefined, refreshToken |-> Undefined]
    /\ verifyOut = NotRun
    /\ validateRes = NoValidate
    /\ refreshResponse = NoRefresh
    /\ calls = << >>
    /\ res = NoResponse
    /\ lgPc = "idle"
    /\ apiResponse = NoApi
    /\ response = NoLoginResponse
    /\ error = ""
    /\ route = LoginPath
    /\ nav = "loaded"
    /\ redirects = 0
    /\ tolerated = FALSE
    /\ MatchRest
    /\ ViewRest
    /\ DetailRest
    /\ HelpRest

\* no request and no login in flight, the browser on the login page without
\* cookies
GuardRest ==
    /\ nodeEnv = "production"
    /\ jar = [auth_token |-> Undefined, refresh_token |-> Undefined]
    /\ mwPc = "idle"
    /\ req = [accessToken |-> Undefined, refreshToken |-> Undefined]
    /\ verifyOut = NotRun
    /\ validateRes = NoValidate
    /\ refreshResponse = NoRefresh
    /\ calls = << >>
    /\ res = NoResponse
    /\ lgPc = "idle"
    /\ apiResponse = NoApi
    /\ response = NoLoginResponse
    /\ error = ""
    /\ route = LoginPath
    /\ nav = "loaded"
    /\ redirects = 0
    /\ tolerated = FALSE

\* the initial state of the specifications of the matcher and the views:
\* every component as constructed, the guard at rest
UiInit == GuardRest /\ MatchRest /\ ViewRest /\ DetailRest /\ HelpRest

Next ==
    \/ \E path \in NavPaths : Navigate(path)
    \/ ServeUnguarded
    \/ middleware
    \/ \E out \in ValidateOutcomes : ValidateReply(out)
    \/ \E out \in RefreshOutcomes : RefreshReply(out)
    \/ BrowserReceives
    \/ handleLogin
    \/ \E bodyReads \in BOOLEAN : POST(bodyReads)
    \/ \E out \in ApiOutcomes : UpstreamReply(out)
    \/ LoginResponseArrives

Spec == Init /\ [][Next]_vars

-----------------------------------------------------------------------------
\* The route matcher on its own: paths are put to config.matcher one at a
\* time.

\* what follows the leading '/' of a probed path: the matcher's literals,
\* near misses of each, and an ordinary page
PathHeads ==
    { << >>,
      <<"a", "p", "i">>,
      <<"a", "p">>,
      <<"a", "p", "i", "a", "r", "y">>,
      <<"_", "n", "e", "x", "t", "/", "s", "t", "a", "t", "i", "c">>,
      <<"_", "n", "e", "x", "t", "/", "i", "m", "a", "g", "e">>,
      <<"_", "n", "e", "x", "t", "/", "d", "a", "t", "a">>,
      <<"_", "n", "e", "x", "t">>,
      <<"f", "a", "v", "i", "c", "o", "n", ".", "i", "c", "o">>,
      <<"f", "a", "v", "i", "c", "o", "n", "X", "i", "c", "o">>,
      <<"f", "a", "v", "i", "c", "o", "n", "-", "i", "c", "o">>,
      <<"f", "a", "v", "i", "c", "o", "n">>,
      <<"l", "o", "g", "i", "n">>,
      <<"l", "o", "g", "i">>,
      <<"u", "s", "e", "r", "s">> }

PathTails ==
    { << >>,
      <<"/">>,
      <<"/", "x">>,
      <<"s">>,
      <<".", "i", "c", "o">> }

ProbePaths == { <<"/">> \o head \o tail : head \in PathHeads, tail \in PathTails }

\* a request for `path` comes in
Request(path) ==
    /\ probe' = path
    /\ guarded' = "unknown"
    /\ UNCHANGED <<guardVars, viewVars, detailVars, helpVars>>

\* the framework decides from config.matcher whether middleware runs
Match ==
    /\ guarded = "unknown"
    /\ guarded' = IF matcher(probe) THEN "guarded" ELSE "excluded"
    /\ UNCHANGED <<probe, guardVars, viewVars, detailVars, helpVars>>

MatcherNext ==
    \/ \E path \in ProbePaths : Request(path)
    \/ Match

MatcherSpec == UiInit /\ [][MatcherNext]_vars

-----------------------------------------------------------------------------
\* The verification view.  A string is the sequence of its characters; Null
\* stands for a field that is null or undefined.

Null == <<"null">>

Chars == {"a", "A", "b", " ", "1"}

\* entry.field ?? ""
OrEmpty(v) == IF v = Null THEN << >> ELSE v

\* String.prototype.trim
RECURSIVE trim(_)
trim(s) ==
    IF s = << >> THEN s
    ELSE IF Head(s) = " " THEN trim(Tail(s))
    ELSE IF s[Len(s)] = " " THEN trim(SubSeq(s, 1, Len(s) - 1))
    ELSE s

LowerOf(c) == IF c = "A" THEN "a" ELSE c

\* String.prototype.toLowerCase
RECURSIVE toLowerCase(_)
toLowerCase(s) ==
    IF s = << >> THEN s ELSE <<LowerOf(Head(s))>> \o toLowerCase(Tail(s))

\* String.prototype.includes
RECURSIVE includes(_, _)
includes(s, q) ==
    IF Len(s) < Len(q) THEN FALSE
    ELSE IF SubSeq(s, 1, Len(q)) = q THEN TRUE
    ELSE includes(Tail(s), q)

\* `${entry.first_name ?? ""} ${entry.last_name ?? ""}`.trim()
fullName(entry) ==
    trim(OrEmpty(entry.first_name) \o <<" ">> \o OrEmpty(entry.last_name))

\* variant: only the full name is searched
matchesSearch_NameOnly(entry, query) ==
    \/ query = << >>
    \/ includes(toLowerCase(fullName(entry)), query)

matchesSearch(entry, query) ==
    \/ query = << >>
    \/ includes(toLowerCase(fullName(entry)), query)
    \/ includes(toLowerCase(OrEmpty(entry.email)), query)
    \/ includes(toLowerCase(OrEmpty(entry.phone)), query)

matchesStatus(entry, filter) == filter = "all" \/ entry.status = filter

\* entries.filter(...) of the useMemo
RECURSIVE FilterEntries(_, _, _)
FilterEntries(list, query, filter) ==
    IF list = << >> THEN << >>
    ELSE (IF matchesSearch(Head(list), query) /\ matchesStatus(Head(list), filter)
            THEN <<Head(list)>>
            ELSE << >>) \o FilterEntries(Tail(list), query, filter)

filteredEntries ==
    FilterEntries(entries, toLowerCase(trim(search)), statusFilter)

\* the status badge of a table row: "verified", "pending", and the rejected
\* badge for every other status
Badge(entry) ==
    IF entry.status = "verified" THEN "verified"
    ELSE IF entry.status = "pending" THEN "pending"
    ELSE "rejected"

\* the state update of handleApprove's timer:
\* prev.map((e) => (e.id === entry.id ? { ...e, status: "approved" } : e)).
\* No element of the view calls handleApprove, so it is no action of ViewNext.
handleApprove(prev, id) ==
    [k \in 1..Len(prev) |->
        IF prev[k].id = id THEN [prev[k] EXCEPT !.status = "approved"]
                           ELSE prev[k]]

Entry(id, first, last, email, phone, status) ==
    [id |-> id, first_name |-> first, last_name |-> last, email |-> email,
     phone |-> phone, status |-> status]

\* the rows the API may hold
ApiEntries ==
    { Entry(1, <<"A">>, <<"b">>, <<"b">>, <<"1">>, "pending"),
      Entry(2, Null, <<"a">>, Null, Null, "approved"),
      Entry(3, <<"b">>, Null, <<"A", "b">>, <<"1", "1">>, "rejected"),
      Entry(4, <<" ">>, <<"A">>, <<"a">>, Null, "verified") }

MaxEntries == 2

EntryLists == UNION { [1..n -> ApiEntries] : n \in 0..MaxEntries }

\* what the user may type into the search box
Searches ==
    { << >>, <<" ">>, <<" ", "A", " ">>, <<"a", " ", "b">>, <<"A", "b">>,
      <<"1">> }

StatusFilters == {"all", "pending", "approved", "rejected"}

\* the outcome of fetch + res.json() of loadData: the fetch throws, a non-ok
\* status, a body that does not parse, an array, { data: [...] }, or another
\* JSON value
LoadOut(kind, data) == [kind |-> kind, data |-> data]

LoadOutcomes ==
    { LoadOut(kind, << >>) : kind \in {"throw", "notok", "unparsable", "other"} }
      \cup { LoadOut(kind, data) : kind \in {"array", "wrapped"},
                                   data \in EntryLists }

MaxInFlight == 2

RemoveAt(s, i) == SubSeq(s, 1, i - 1) \o SubSeq(s, i + 1, Len(s))

\* loadData up to its await: setIsLoading(true) and the fetch is sent
loadData(showToast) ==
    /\ isLoading' = TRUE
    /\ loads' = Append(loads, showToast)
    /\ newestPending' = TRUE

\* useEffect(() => { loadData() }, [loadData])
Mount ==
    /\ vvPc = "rendered"
    /\ vvPc' = "mounted"
    /\ loadData(FALSE)
    /\ UNCHANGED <<entries, isRefreshing, search, statusFilter, toast,
                   guardVars, matchVars,
                   detailVars, helpVars>>

\* the refresh button, disabled while isRefreshing
handleRefresh ==
    /\ vvPc = "mounted"
    /\ ~isRefreshing
    /\ Len(loads) < MaxInFlight
    /\ isRefreshing' = TRUE
    /\ loadData(TRUE)
    /\ UNCHANGED <<entries, search, statusFilter, toast, vvPc,
                   guardVars, matchVars,
                   detailVars, helpVars>>

\* loadData from the reply of its fetch to the end of finally
LoadSettles(i, out) ==
    /\ i \in 1..Len(loads)
    /\ loads' = RemoveAt(loads, i)
    /\ newestPending' = (newestPending /\ i # Len(loads))
    /\ IF out.kind \in {"throw", "notok", "unparsable"}
         THEN /\ entries' = mockData
              /\ toast' = [title |-> "failed", count |-> 0]
         ELSE /\ entries' = IF out.kind \in {"array", "wrapped"}
                              THEN out.data ELSE << >>
              /\ toast' = IF loads[i]
                            THEN [title |-> "refreshed",
                                  count |-> IF out.kind = "array"
                                              THEN Len(out.data) ELSE 0]
                            ELSE toast
    /\ isLoading' = FALSE
    /\ isRefreshing' = FALSE
    /\ UNCHANGED <<search, statusFilter, vvPc, guardVars, matchVars,
                   detailVars, helpVars>>

\* onChange of the search input
setSearch(value) ==
    /\ vvPc = "mounted"
    /\ search' = value
    /\ UNCHANGED <<entries, isLoading, isRefreshing, statusFilter, loads,
                   toast, vvPc, newestPending, guardVars, matchVars,
                   detailVars, helpVars>>

\* the four status buttons
setStatusFilter(value) ==
    /\ vvPc = "mounted"
    /\ statusFilter' = value
    /\ UNCHANGED <<entries, isLoading, isRefreshing, search, loads,
                   toast, vvPc, newestPending, guardVars, matchVars,
                   detailVars, helpVars>>

ViewNext ==
    \/ Mount
    \/ handleRefresh
    \/ \E i \in 1..MaxInFlight, out \in LoadOutcomes : LoadSettles(i, out)
    \/ \E value \in Searches : setSearch(value)
    \/ \E value \in StatusFilters : setStatusFilter(value)

ViewSpec == UiInit /\ [][ViewNext]_vars

-----------------------------------------------------------------------------
\* The details dialog of the verification view.  The table is loaded by the
\* mount effect; the search box and the status buttons are left alone, so
\* every loaded row offers its details button.

\* ids of the rows of the table
ShownIds == { filteredEntries[k].id : k \in 1..Len(filteredEntries) }

\* the outcome of fetch + res.json() of openDetails: the fetch throws, a
\* non-ok status, a body that does not parse, the JSON value null,
\* { data: {...} }, the entry itself, or an object whose data is empty
DetailOutcomes ==
    {"throw", "notok", "unparsable", "null", "wrapped", "bare", "nodata"}

\* the details button of a row; the open dialog is modal and covers the table
openDetails(id) ==
    /\ vvPc = "mounted"
    /\ ~isLoading
    /\ ~detailOpen
    /\ id \in ShownIds
    /\ Len(details) < MaxInFlight
    /\ detailLoading' = TRUE
    /\ detailOpen' = TRUE
    /\ details' = Append(details, id)
    /\ newestDetail' = TRUE
    /\ UNCHANGED <<detailEntry, viewVars, guardVars, matchVars, helpVars>>

\* openDetails from the reply of its fetch to the end of finally
DetailSettles(i, out) ==
    /\ i \in 1..Len(details)
    /\ details' = RemoveAt(details, i)
    /\ newestDetail' = (newestDetail /\ i # Len(details))
    /\ IF out \in {"throw", "notok", "unparsable"}
         THEN /\ toast' = [title |-> "detail failed", count |-> 0]
              /\ detailEntry' = NoDetail
         ELSE /\ detailEntry' =
                    CASE out = "wrapped" -> Detail("entry", details[i])
                      [] out = "bare"    -> Detail("entry", details[i])
                      [] out = "nodata"  -> Detail("reply", details[i])
                      [] out = "null"    -> NoDetail
              /\ UNCHANGED toast
    /\ detailLoading' = FALSE
    /\ UNCHANGED <<detailOpen, entries, isLoading, isRefreshing, search,
                   statusFilter, loads, vvPc, newestPending, guardVars,
                   matchVars, helpVars>>

\* the dialog is dismissed (escape, overlay, close icon):
\* onOpenChange(false)
onOpenChange ==
    /\ detailOpen
    /\ detailEntry' = NoDetail
    /\ detailOpen' = FALSE
    /\ UNCHANGED <<detailLoading, details, newestDetail, viewVars, guardVars,
                   matchVars, helpVars>>

\* the button of the dialog footer: setDetailOpen(false)
CloseButton ==
    /\ detailOpen
    /\ detailOpen' = FALSE
    /\ UNCHANGED <<detailEntry, detailLoading, details, newestDetail,
                   viewVars, guardVars, matchVars, helpVars>>

DetailNext ==
    \/ Mount
    \/ \E i \in 1..MaxInFlight, out \in LoadOutcomes : LoadSettles(i, out)
    \/ \E id \in {e.id : e \in ApiEntries} : openDetails(id)
    \/ \E i \in 1..MaxInFlight, out \in DetailOutcomes : DetailSettles(i, out)
    \/ onOpenChange
    \/ CloseButton

DetailSpec == UiInit /\ [][DetailNext]_vars

-----------------------------------------------------------------------------
\* The help-requests view: the effect that loads jobs and applications.

\* a JSON value used as an id; values of different types are never equal
\* (Set.prototype.has compares without conversion)
Id(type, v) == [type |-> type, v |-> v]

IdVals == {Id("number", 1), Id("number", 2), Id("string", 1), Id("undefined", 0)}

FetchedJobs == { [id |-> i, title |-> "job"] : i \in IdVals }

FetchedApps == { [id |-> Id("number", 7), job_id |-> i] : i \in IdVals }

MaxJobs == 2
MaxApps == 2

JobLists == UNION { [1..n -> FetchedJobs] : n \in 0..MaxJobs }
AppLists == UNION { [1..n -> FetchedApps] : n \in 0..MaxApps }

\* what a fetch and the json() of its response may give: the fetch rejects,
\* a non-ok status, a body that does not parse, the JSON value null, an object
\* without the array, an object with it
Failures == {"throw", "notok", "unparsable", "null", "nolist"}

JobsReplies ==
    { Reply(kind, << >>) : kind \in Failures }
      \cup { Reply("object", list) : list \in JobLists }

AppsReplies ==
    { Reply(kind, << >>) : kind \in Failures }
      \cup { Reply("object", list) : list \in AppLists }

\* Array.isArray(data.field) ? data.field : []
ArrayOrEmpty(reply) == IF reply.kind = "object" THEN reply.list ELSE << >>

\* the error the try block of fetchAll throws, "null" when it throws none, in
\* the order the code reaches the throwing statements
Thrown(jobsRes, appsRes) ==
    IF jobsRes.kind = "throw" \/ appsRes.kind = "throw" THEN "Failed to fetch"
    ELSE IF jobsRes.kind = "notok" THEN "Jobs HTTP"
    ELSE IF appsRes.kind = "notok" THEN "Applications HTTP"
    ELSE IF jobsRes.kind = "unparsable" \/ appsRes.kind = "unparsable"
      THEN "Unexpected token"
    ELSE IF jobsRes.kind = "null" \/ appsRes.kind = "null"
      THEN "Cannot read properties of null"
    ELSE "null"

\* variant: the set is built from the applications' own ids
appliedJobIds_OwnIds(fetchedApps) ==
    { fetchedApps[i].id : i \in 1..Len(fetchedApps) }

\* new Set(fetchedApps.map((a) => a.job_id))
appliedJobIds(fetchedApps) ==
    { fetchedApps[i].job_id : i \in 1..Len(fetchedApps) }

\* fetchedJobs.filter((j) => !appliedJobIds.has(j.id))
RECURSIVE filteredJobs(_, _)
filteredJobs(fetchedJobs, applied) ==
    IF fetchedJobs = << >> THEN << >>
    ELSE (IF Head(fetchedJobs).id \in applied
            THEN << >>
            ELSE <<Head(fetchedJobs)>>) \o filteredJobs(Tail(fetchedJobs), applied)

\* the component mounts: the effect sets mounted and runs fetchAll up to
\* its await
HelpMount ==
    /\ ~mounted
    /\ hvPc \in {"unmounted", "settled"}
    /\ mounted' = TRUE
    /\ hvPc' = "fetching"
    /\ jobs' = << >>
    /\ applications' = << >>
    /\ isLoadingJobs' = TRUE
    /\ jobsError' = "null"
    /\ isLoadingApps' = TRUE
    /\ appsError' = "null"
    /\ fetched' = NoFetch
    /\ UNCHANGED <<guardVars, matchVars, viewVars,
                   detailVars>>

\* the effect's cleanup
HelpUnmount ==
    /\ mounted
    /\ mounted' = FALSE
    /\ UNCHANGED <<hvPc, jobs, applications, isLoadingJobs, isLoadingApps,
                   jobsError, appsError, fetched, guardVars, matchVars,
                   viewVars, detailVars>>

\* variant: each list is stored as soon as its own reply is usable, and the
\* setters are not guarded by mounted
fetchAll_EachOnItsOwn(jobsRes, appsRes) ==
    /\ hvPc = "fetching"
    /\ hvPc' = "settled"
    /\ fetched' = [jobs |-> jobsRes, apps |-> appsRes]
    /\ jobs' = IF jobsRes.kind \in {"object", "nolist"}
                 THEN filteredJobs(ArrayOrEmpty(jobsRes),
                                   appliedJobIds(ArrayOrEmpty(appsRes)))
                 ELSE jobs
    /\ applications' = IF appsRes.kind \in {"object", "nolist"}
                         THEN ArrayOrEmpty(appsRes) ELSE applications
    /\ IF Thrown(jobsRes, appsRes) = "null"
         THEN UNCHANGED <<jobsError, appsError>>
         ELSE /\ jobsError' = Thrown(jobsRes, appsRes)
              /\ appsError' = Thrown(jobsRes, appsRes)
    /\ isLoadingJobs' = FALSE
    /\ isLoadingApps' = FALSE
    /\ UNCHANGED <<mounted, guardVars, matchVars, viewVars,
                   detailVars>>

\* fetchAll from the replies of its two fetches to the end of finally
fetchAll(jobsRes, appsRes) ==
    /\ hvPc = "fetching"
    /\ hvPc' = "settled"
    /\ fetched' = [jobs |-> jobsRes, apps |-> appsRes]
    /\ IF ~mounted
         THEN UNCHANGED <<jobs, applications, isLoadingJobs, isLoadingApps,
                          jobsError, appsError>>
         ELSE /\ IF Thrown(jobsRes, appsRes) = "null"
                   THEN /\ jobs' = filteredJobs(ArrayOrEmpty(jobsRes),
                                       appliedJobIds(ArrayOrEmpty(appsRes)))
                        /\ applications' = ArrayOrEmpty(appsRes)
                        /\ UNCHANGED <<jobsError, appsError>>
                   ELSE /\ jobsError' = Thrown(jobsRes, appsRes)
                        /\ appsError' = Thrown(jobsRes, appsRes)
                        /\ UNCHANGED <<jobs, applications>>
              /\ isLoadingJobs' = FALSE
              /\ isLoadingApps' = FALSE
    /\ UNCHANGED <<mounted, guardVars, matchVars, viewVars,
                   detailVars>>

HelpNext ==
    \/ HelpMount
    \/ HelpUnmount
    \/ \E jobsRes \in JobsReplies, appsRes \in AppsReplies :
          fetchAll(jobsRes, appsRes)

HelpSpec == UiInit /\ [][HelpNext]_vars

-----------------------------------------------------------------------------
(* Vocabulary of the properties, stated on the request and on the replies  *)
(* of the external API, independently of the guard's own computation.      *)

Present(tok) == tok.kind # "undefined"

\* the token is a JWT signed with the guard's secret and not expired
VerifiesLocally(tok) ==
    tok.kind = "jwt" /\ tok.key = "local" /\ ~tok.expired

\* the guard has returned
Done       == mwPc = "done"
Allowed    == Done /\ res.kind = "next"
Redirected == Done /\ res.kind = "redirect" /\ res.location = "/login"

\* GET /api/auth/me answered success with user.role = "admin"
MeSaysAdmin == validateRes.kind = "user" /\ validateRes.role = "admin"
\* the validation call was made and did not confirm admin
ValidationFailed == validateRes.kind # "none" /\ ~MeSaysAdmin

\* local verification was tried on a token and failed
LocalVerifyFailed ==
    Truthy(req.accessToken) /\ ~VerifiesLocally(req.accessToken)

HasCookie(cookies, n) == \E c \in cookies : c.name = n

\* the cookie attributes of section 6 of the specification
GoodCookie(c, maxAge) ==
    /\ c.maxAge = maxAge
    /\ c.httpOnly
    /\ c.sameSite = "lax"
    /\ c.path = "/"
    /\ c.secure <=> (nodeEnv = "production")

-----------------------------------------------------------------------------
\* C1 (as stated): the guard lets a request through only if the access
\* token verifies locally with role admin, or it fails local verification
\* and the validation endpoint confirms role admin; no other path allows.
C1_AllowOnlyIfAdminConfirmed ==
    Allowed =>
        \/ /\ VerifiesLocally(req.accessToken)
           /\ req.accessToken.role = "admin"
        \/ /\ LocalVerifyFailed
           /\ MeSaysAdmin

\* C2: a request without an auth_token cookie is redirected to /login, no
\* fetch is issued and no cookie is written, whatever the refresh_token is.
C2_NoAccessTokenRedirects ==
    (Done /\ ~Present(req.accessToken)) =>
        /\ Redirected
        /\ calls = << >>
        /\ validateRes.kind = "none" /\ refreshResponse.kind = "none"
        /\ res.cookies = {}

C2_Witness ==
    /\ Done /\ ~Present(req.accessToken)
    /\ VerifiesLocally(req.refreshToken)
    /\ Redirected

\* C3: a token that verifies locally with role admin is allowed and the
\* response carries no cookie, whatever the refresh_token is.
C3_LocalAdminAllowedNoCookies ==
    (Done /\ VerifiesLocally(req.accessToken) /\ req.accessToken.role = "admin") =>
        /\ Allowed
        /\ res.cookies = {}

C3_Witness ==
    /\ Allowed
    /\ VerifiesLocally(req.accessToken) /\ req.accessToken.role = "admin"
    /\ Truthy(req.refreshToken)

\* C4: a token that verifies locally with a role other than admin (or no
\* role) is redirected to /login and no fallback is tried, even with a
\* refresh_token present.
C4_LocalNonAdminRedirects ==
    (Done /\ VerifiesLocally(req.accessToken) /\ req.accessToken.role # "admin") =>
        /\ Redirected
        /\ calls = << >>
        /\ res.cookies = {}

C4_Witness ==
    /\ Redirected
    /\ VerifiesLocally(req.accessToken) /\ req.accessToken.role = "undefined"
    /\ VerifiesLocally(req.refreshToken)

\* C5: a token that fails local verification and is confirmed admin by the
\* validation endpoint is allowed without rotating cookies: no cookie is
\* written and the refresh endpoint is not called.
C5_ValidatedAdminAllowedNoRotation ==
    (Done /\ LocalVerifyFailed /\ MeSaysAdmin) =>
        /\ Allowed
        /\ res.cookies = {}
        /\ calls = <<"validate">>
        /\ refreshResponse.kind = "none"

C5_Witness ==
    /\ Allowed /\ LocalVerifyFailed /\ MeSaysAdmin
    /\ Truthy(req.refreshToken)

\* the refresh endpoint answered success with a body carrying new token(s)
RefreshExchanged ==
    /\ refreshResponse.kind = "object"
    /\ Truthy(refreshResponse.accessToken) \/ Truthy(refreshResponse.refreshToken)

\* C6 (as stated): local verification fails, validation does not confirm
\* admin, the refresh exchange succeeds: the request is allowed and both
\* cookies are set, auth_token with max-age 900 and refresh_token with
\* max-age 604800, http-only, same-site lax, path /, secure in production.
C6_RefreshSetsBothCookies ==
    (Done /\ LocalVerifyFailed /\ ValidationFailed /\ RefreshExchanged) =>
        /\ Allowed
        /\ HasCookie(res.cookies, "auth_token")
        /\ HasCookie(res.cookies, "refresh_token")
        /\ \A c \in res.cookies :
              GoodCookie(c, IF c.name = "auth_token" THEN 900 ELSE 604800)

\* C6 (amended): in that case the request is allowed and each cookie is set
\* exactly when the refresh body carries its token: auth_token (max-age 900)
\* for a non-empty accessToken, refresh_token (max-age 604800) for a
\* non-empty refreshToken, with the stated attributes and the new value.
C6_RefreshSetsCookiesOfReturnedTokens ==
    (Done /\ LocalVerifyFailed /\ ValidationFailed /\ RefreshExchanged) =>
        /\ Allowed
        /\ HasCookie(res.cookies, "auth_token")
              <=> Truthy(refreshResponse.accessToken)
        /\ HasCookie(res.cookies, "refresh_token")
              <=> Truthy(refreshResponse.refreshToken)
        /\ \A c \in res.cookies :
              /\ c.name \in {"auth_token", "refresh_token"}
              /\ c.name = "auth_token" =>
                    GoodCookie(c, 900) /\ c.value = refreshResponse.accessToken
              /\ c.name = "refresh_token" =>
                    GoodCookie(c, 604800) /\ c.value = refreshResponse.refreshToken

C6_Witness ==
    /\ Allowed /\ LocalVerifyFailed /\ ValidationFailed
    /\ Truthy(refreshResponse.accessToken)
    /\ Truthy(refreshResponse.refreshToken)
    /\ Cardinality(res.cookies) = 2
    /\ nodeEnv = "production"

\* the refresh step failed: no refresh token to send, or the call threw,
\* answered a non-success status, or its body could not be used
RefreshFailed ==
    \/ ~Truthy(req.refreshToken)
    \/ refreshResponse.kind \in {"throw", "notok", "unparsable", "null"}

\* C7: local verification fails, validation fails and the refresh step
\* fails: the guard redirects to /login and writes no cookie.
C7_AllFailRedirects ==
    (Done /\ LocalVerifyFailed /\ ValidationFailed /\ RefreshFailed) =>
        /\ Redirected
        /\ res.cookies = {}

C7_Witness ==
    /\ Redirected /\ LocalVerifyFailed
    /\ validateRes.kind = "user" /\ validateRes.role = "user"
    /\ refreshResponse.kind = "notok"

-----------------------------------------------------------------------------
\* the login route has returned
LoginDone == lgPc = "done"

\* the upstream answered, its body parsed to an object
UpstreamObject == apiResponse.kind = "http" /\ apiResponse.body = "object"

\* C8: upstream success with an admin user gives status 200, a body with
\* the upstream's user, accessToken and refreshToken, and both cookies;
\* upstream success with any other role gives status 403 and no cookie.
C8_LoginAdminGets200NonAdmin403 ==
    (LoginDone /\ UpstreamObject /\ Ok(apiResponse.status)) =>
        IF apiResponse.user.role = "admin"
          THEN /\ response.status = 200
               /\ response.body.success
               /\ response.body.user = apiResponse.user
               /\ response.body.accessToken = apiResponse.accessToken
               /\ response.body.refreshToken = apiResponse.refreshToken
               /\ HasCookie(response.cookies, "auth_token")
               /\ HasCookie(response.cookies, "refresh_token")
               /\ \A c \in response.cookies :
                     GoodCookie(c, IF c.name = "auth_token" THEN 900 ELSE 604800)
          ELSE /\ response.status = 403
               /\ ~response.body.success
               /\ response.cookies = {}

C8_Witness ==
    /\ LoginDone /\ UpstreamObject /\ apiResponse.status = 201
    /\ apiResponse.user.role = "admin"
    /\ Truthy(apiResponse.accessToken) /\ Truthy(apiResponse.refreshToken)
    /\ response.status = 200
    /\ Cardinality(response.cookies) = 2

\* the upstream answered with a non-success status
UpstreamNotOk == apiResponse.kind = "http" /\ ~Ok(apiResponse.status)

\* C9 (as stated): whenever the upstream answers a non-success status the
\* route returns success false with exactly that status and sets no cookie.
C9_UpstreamStatusPassedThrough ==
    (LoginDone /\ UpstreamNotOk) =>
        /\ response.status = apiResponse.status
        /\ ~response.body.success
        /\ response.cookies = {}

\* C9 (amended): when the upstream answers a non-success status that can
\* carry a body (any but 304) and its body parses to a JSON object, the
\* route returns success false, the upstream's message (or 'Invalid
\* credentials') and exactly that status; when the body does not parse or is
\* null, or the status is 304, it returns status 500; in every case no
\* cookie is set and the role check is not reached.
C9_UpstreamStatusPassedThroughWhenParsed ==
    (LoginDone /\ UpstreamNotOk) =>
        /\ ~response.body.success
        /\ response.cookies = {}
        /\ response.body.message # "Unauthorized: Admin access only"
        /\ IF apiResponse.body = "object" /\ apiResponse.status # 304
             THEN /\ response.status = apiResponse.status
                  /\ response.body.message =
                        (IF apiResponse.message \in {"undefined", ""}
                           THEN "Invalid credentials" ELSE apiResponse.message)
             ELSE /\ response.status = 500
                  /\ response.body.message = "Internal server error"

C9_Witness ==
    /\ LoginDone /\ UpstreamNotOk /\ apiResponse.body = "object"
    /\ apiResponse.user.role = "admin"
    /\ Truthy(apiResponse.accessToken)
    /\ apiResponse.message = "undefined"
    /\ response.status = 401

-----------------------------------------------------------------------------
\* C10: a cookie is written only where the refresh exchange succeeded, a
\* fetch is issued only after local verification of a token has failed, and
\* runs ending at a locally verified token or at a missing token issue no
\* fetch and write no cookie.
C10_SideEffectsOnlyOnFallback ==
    /\ res.cookies # {} =>
          /\ refreshResponse.kind = "object"
          /\ calls = <<"validate", "refresh">>
    /\ calls # << >> => LocalVerifyFailed
    /\ (validateRes.kind # "none" \/ refreshResponse.kind # "none") =>
          LocalVerifyFailed
    /\ (Done /\ (VerifiesLocally(req.accessToken) \/ ~Present(req.accessToken))) =>
          /\ calls = << >>
          /\ res.cookies = {}

C10_Witness ==
    /\ Done /\ res.cookies # {}
    /\ calls = <<"validate", "refresh">>
    /\ req.accessToken.kind = "jwt" /\ req.accessToken.expired

-----------------------------------------------------------------------------
\* C11: no exception escapes the guard: whatever local verification, the
\* validation call and the refresh call do (return, throw, non-success,
\* unparsable body), the guard returns an allow or a redirect; a failed step
\* falls through to the next one and the run ends in a redirect to /login
\* when nothing succeeds.
C11_NoExceptionEscapes ==
    /\ Done => res.kind \in {"next", "redirect"}
    /\ (Done /\ LocalVerifyFailed) => validateRes.kind # "none"
    /\ (Done /\ LocalVerifyFailed /\ ValidationFailed /\ Truthy(req.refreshToken))
          => refreshResponse.kind # "none"
    /\ (Done /\ LocalVerifyFailed /\ ValidationFailed /\ RefreshFailed)
          => Redirected

C11_Witness ==
    /\ Redirected
    /\ req.accessToken.kind = "malformed"
    /\ validateRes.kind = "unparsable"
    /\ refreshResponse.kind = "null"

\* the guard's position in the chain verify -> validate -> refresh -> return
Stage(pc) ==
    CASE pc = "idle"     -> 0
      [] pc = "validate" -> 1
      [] pc = "refresh"  -> 2
      [] pc = "done"     -> 3

IsPrefix(a, b) == Len(a) <= Len(b) /\ SubSeq(b, 1, Len(a)) = a

\* C12: the fallback chain runs once and in order: at most one validation
\* call and one refresh call, validation first; the refresh call only when
\* validation did not confirm admin and a refresh_token cookie is present;
\* no step is re-run, and a run ends in exactly one of allow, allow with new
\* cookies, or redirect.
C12_ChainOnceInOrder ==
    /\ [](/\ calls \in {<< >>, <<"validate">>, <<"validate", "refresh">>}
          /\ Len(calls) = 2 =>
                /\ ValidationFailed
                /\ Truthy(req.refreshToken)
          /\ Done =>
                \/ res.kind = "next" /\ res.location = "-"
                \/ res.kind = "redirect" /\ res.cookies = {})
    /\ [][mwPc # "idle" =>
            /\ mwPc' = "idle" \/ Stage(mwPc') > Stage(mwPc)
            /\ mwPc' # "idle" => IsPrefix(calls, calls')
            /\ mwPc' = "idle" => mwPc = "done"]_vars

C12_Witness ==
    /\ Done
    /\ calls = <<"validate", "refresh">>
    /\ validateRes.kind = "notok"
    /\ refreshResponse.kind = "throw"

\* C13 (as stated): whenever the guard redirects a request to /login, the
\* auth_token and refresh_token cookies the request carried are discarded:
\* once the browser has received the redirect it holds neither.
C13_RedirectDiscardsCookies ==
    [][(Redirected /\ mwPc' = "idle") =>
          (~Truthy(jar'.auth_token) /\ ~Truthy(jar'.refresh_token))]_vars

\* C15 (as stated): a refresh reply with a success status whose body carries
\* neither accessToken nor refreshToken does not authorize the request: the
\* guard redirects to /login.
C15_EmptyRefreshDoesNotAuthorize ==
    (/\ Done /\ LocalVerifyFailed /\ ValidationFailed
     /\ refreshResponse.kind = "object"
     /\ ~Truthy(refreshResponse.accessToken)
     /\ ~Truthy(refreshResponse.refreshToken)) => Redirected

\* C16: an allow obtained from external validation changes no cookie and
\* leaves nothing behind: every request carrying a token that does not
\* verify locally is allowed only by its own validation or refresh reply,
\* whether or not the same token was let through on the request before.
C16_ToleratedOnlyPerRequest ==
    /\ []((Allowed /\ LocalVerifyFailed) =>
            /\ calls # << >>
            /\ MeSaysAdmin \/ refreshResponse.kind = "object")
    /\ []((mwPc = "idle") =>
            /\ validateRes.kind = "none"
            /\ refreshResponse.kind = "none"
            /\ calls = << >>)
    /\ [][(Allowed /\ LocalVerifyFailed /\ MeSaysAdmin /\ mwPc' = "idle") =>
            jar' = jar]_vars

C16_Witness ==
    /\ tolerated
    /\ Redirected
    /\ LocalVerifyFailed
    /\ req.accessToken = jar.auth_token
    /\ validateRes.kind = "throw"

\* C17: no redirect loop: every redirect of the guard targets /login, the
\* matcher excludes /login, so the request that follows a redirect is not
\* intercepted again: a navigation sees at most one redirect and then shows
\* the login page, whatever cookies the browser holds.
C17_NoRedirectLoop ==
    /\ (Done /\ res.kind = "redirect") => res.location = "/login"
    /\ mwPc # "idle" => route # LoginPath
    /\ redirects <= 1
    /\ redirects = 1 => (route = LoginPath /\ mwPc = "idle")

C17_Witness ==
    /\ redirects = 1
    /\ nav = "loaded"
    /\ route = LoginPath
    /\ Truthy(jar.auth_token) /\ Truthy(jar.refresh_token)

\* C18: when reading the request body, the upstream call or parsing its
\* reply throws, the login route returns status 500 with success false and
\* 'Internal server error' and sets no cookie; over all branches the two
\* cookies are set exactly when the status is 200.
C18_LoginFailure500CookiesIff200 ==
    LoginDone =>
        /\ (\/ apiResponse.kind \in {"none", "throw"}
            \/ apiResponse.body \in {"unparsable", "null"}) =>
              /\ response.status = 500
              /\ ~response.body.success
              /\ response.body.message = "Internal server error"
              /\ response.cookies = {}
        /\ (response.status = 200) <=>
              (/\ HasCookie(response.cookies, "auth_token")
               /\ HasCookie(response.cookies, "refresh_token"))
        /\ (response.status # 200) => response.cookies = {}

C18_Witness ==
    /\ LoginDone
    /\ apiResponse.kind = "http" /\ apiResponse.status = 200
    /\ apiResponse.body = "unparsable"
    /\ response.status = 500

-----------------------------------------------------------------------------
\* the strings the route exclusion names, taken literally
ExcludedPrefixes ==
    { <<"a", "p", "i">>,
      <<"_", "n", "e", "x", "t", "/", "s", "t", "a", "t", "i", "c">>,
      <<"_", "n", "e", "x", "t", "/", "i", "m", "a", "g", "e">>,
      <<"f", "a", "v", "i", "c", "o", "n", ".", "i", "c", "o">>,
      <<"l", "o", "g", "i", "n">> }

BeginsWith(s, prefix) ==
    /\ Len(s) >= Len(prefix)
    /\ SubSeq(s, 1, Len(prefix)) = prefix

\* C14 (as stated): the matcher protects a path exactly when the path after
\* its leading '/' does not begin with one of the strings api, _next/static,
\* _next/image, favicon.ico, login; every other path is protected.
C14_ProtectedUnlessLiteralPrefix ==
    guarded # "unknown" =>
        (guarded = "guarded" <=>
            ~\E prefix \in ExcludedPrefixes : BeginsWith(Tail(probe), prefix))

-----------------------------------------------------------------------------
\* s without its leading and trailing spaces: the substring between the
\* first and the last character that is not a space
Trimmed(s) ==
    LET solid == {i \in 1..Len(s) : s[i] # " "}
    IN  IF solid = {} THEN << >>
        ELSE SubSeq(s, CHOOSE i \in solid : \A j \in solid : i <= j,
                       CHOOSE i \in solid : \A j \in solid : i >= j)

LowerCased(s) == [i \in 1..Len(s) |-> IF s[i] = "A" THEN "a" ELSE s[i]]

Contains(s, q) ==
    \E k \in 0..Len(s) : k + Len(q) <= Len(s) /\ SubSeq(s, k + 1, k + Len(q)) = q

FieldText(v) == IF v = Null THEN << >> ELSE v

\* the entry passes the search box and the status buttons
Shown(entry) ==
    LET q == LowerCased(Trimmed(search))
        name == Trimmed(FieldText(entry.first_name) \o <<" ">>
                          \o FieldText(entry.last_name))
    IN  /\ \/ q = << >>
           \/ Contains(LowerCased(name), q)
           \/ Contains(LowerCased(FieldText(entry.email)), q)
           \/ Contains(LowerCased(FieldText(entry.phone)), q)
        /\ statusFilter = "all" \/ entry.status = statusFilter

\* C19: filteredEntries is exactly the sub-sequence of entries, in the
\* original order and with nothing added, of the entries for which the
\* trimmed, lower-cased search is empty or contained in the lower-cased full
\* name, email or phone, and the status filter is "all" or the entry's
\* status.
C19_FilteredIsMatchingSubsequence ==
    LET kept == {i \in 1..Len(entries) : Shown(entries[i])}
    IN  /\ Len(filteredEntries) = Cardinality(kept)
        /\ \A i \in kept :
              filteredEntries[Cardinality({j \in kept : j <= i})] = entries[i]

\* an upper-case, padded search that keeps the second of two rows through its
\* email, with a status button pressed
C19_Witness ==
    /\ Len(entries) = 2
    /\ search = <<" ", "A", " ">>
    /\ statusFilter = "rejected"
    /\ entries[1].status = "approved"
    /\ filteredEntries = <<entries[2]>>
    /\ entries[2].first_name = <<"b">>

-----------------------------------------------------------------------------
\* the load of the mounted component went through: both replies were JSON
\* objects of successful responses
LoadSucceeded ==
    /\ hvPc = "settled"
    /\ mounted
    /\ fetched.jobs.kind \in {"object", "nolist"}
    /\ fetched.apps.kind \in {"object", "nolist"}

\* C20: after a successful load the jobs shown are exactly the fetched jobs
\* whose id is not the job_id of any fetched application, in the fetched
\* order, and the applications shown are all fetched applications; no job
\* shown has an application in the applications list.
C20_JobsWithoutApplication ==
    LoadSucceeded =>
        LET fetchedJobs == fetched.jobs.list
            fetchedApps == fetched.apps.list
            free == {i \in 1..Len(fetchedJobs) :
                        \A k \in 1..Len(fetchedApps) :
                            fetchedApps[k].job_id # fetchedJobs[i].id}
        IN  /\ ~isLoadingJobs /\ ~isLoadingApps
            /\ jobsError = "null" /\ appsError = "null"
            /\ Len(jobs) = Cardinality(free)
            /\ \A i \in free :
                  jobs[Cardinality({j \in free : j <= i})] = fetchedJobs[i]
            /\ applications = fetchedApps
            /\ \A i \in 1..Len(jobs), k \in 1..Len(applications) :
                  applications[k].job_id # jobs[i].id

\* two jobs fetched, the first applied for, the second left
C20_Witness ==
    /\ LoadSucceeded
    /\ Len(fetched.jobs.list) = 2
    /\ Len(applications) = 2
    /\ jobs = <<fetched.jobs.list[2]>>
    /\ applications[1].job_id = fetched.jobs.list[1].id
    /\ jobs[1].id = Id("string", 1)

-----------------------------------------------------------------------------
\* one of the two fetches rejected or answered with a non-success status
FetchFailed(f) ==
    \/ f.jobs.kind \in {"throw", "notok"}
    \/ f.apps.kind \in {"throw", "notok"}

\* C21: the load of jobs and applications is all-or-nothing: when either
\* fetch fails or answers a non-success status, neither list changes and both
\* error states get the same message; whatever the outcome, both loading
\* flags end false while the component is mounted; once unmounted, the
\* settling load writes no state.
C21_LoadAllOrNothing ==
    /\ []((hvPc = "settled" /\ mounted) => (~isLoadingJobs /\ ~isLoadingApps))
    /\ [][(hvPc = "fetching" /\ hvPc' = "settled") =>
            IF mounted
              THEN /\ ~isLoadingJobs' /\ ~isLoadingApps'
                   /\ FetchFailed(fetched') =>
                        /\ jobs' = jobs
                        /\ applications' = applications
                        /\ jobsError' # "null"
                        /\ appsError' = jobsError'
              ELSE UNCHANGED <<jobs, applications, isLoadingJobs,
                               isLoadingApps, jobsError, appsError>>]_vars

\* the jobs arrived, the applications were refused
C21_Witness ==
    /\ hvPc = "settled"
    /\ mounted
    /\ fetched.jobs.kind = "object" /\ Len(fetched.jobs.list) = 2
    /\ fetched.apps.kind = "notok"
    /\ jobs = << >> /\ applications = << >>
    /\ jobsError = "Applications HTTP" /\ appsError = "Applications HTTP"

-----------------------------------------------------------------------------
\* C22 (as stated): the status vocabulary of the verification view is
\* consistent: once handleApprove has completed for an entry, that entry and
\* no other has changed, to the approved status, and its badge is the
\* approved/verified one, not the rejected one; the 'approved' filter selects
\* exactly the entries whose badge is the approved/verified one; the rejected
\* badge is shown only for entries whose status is rejected.
C22_StatusVocabularyConsistent ==
    /\ \A i \in 1..Len(entries) :
          LET after == handleApprove(entries, entries[i].id)
          IN  \A k \in 1..Len(entries) :
                 IF entries[k].id = entries[i].id
                   THEN /\ after[k].status = "approved"
                        /\ Badge(after[k]) = "verified"
                   ELSE after[k] = entries[k]
    /\ \A i \in 1..Len(entries) :
          /\ matchesStatus(entries[i], "approved")
                <=> (Badge(entries[i]) = "verified")
          /\ Badge(entries[i]) = "rejected" => entries[i].status = "rejected"

-----------------------------------------------------------------------------
\* a load settles in this step
LoadSettling == Len(loads') < Len(loads)

\* C23 (as stated): under overlapping loads, isLoading is true whenever a
\* load is in flight, isRefreshing is true while a refresh load is in flight,
\* both flags are false once every load has settled, and entries ends up with
\* the result of the load started last: a load settling after the one
\* started last has settled does not change entries.
C23_FlagsFollowLoadsInFlight ==
    /\ [](/\ loads # << >> => isLoading
          /\ (\E i \in 1..Len(loads) : loads[i]) => isRefreshing
          /\ (vvPc = "mounted" /\ loads = << >>) =>
                (~isLoading /\ ~isRefreshing))
    /\ [][(LoadSettling /\ ~newestPending) => entries' = entries]_vars

\* the refresh loads among the loads in flight
RefreshLoads(s) == Cardinality({i \in 1..Len(s) : s[i]})

\* C25 (as stated): after a successful loadData(true) the item count of the
\* toast equals the number of entries that load stored, for a bare array and
\* for an object whose data field is an array.
C25_ToastCountsStoredEntries ==
    [][(/\ RefreshLoads(loads') < RefreshLoads(loads)
        /\ toast'.title = "refreshed") =>
            toast'.count = Len(entries')]_vars

-----------------------------------------------------------------------------
\* a detail request settles in this step
DetailSettling == Len(details') < Len(details)

\* C24 (as stated): under overlapping detail requests, with the replies in
\* any order, detailLoading is false only when no detail request is in
\* flight, and a reply for an earlier id never replaces the detail of a later
\* one: once the request started last has settled, no other reply changes
\* detailEntry, so that detailEntry ends as the entry of the id requested
\* last, or null when that request failed.
C24_DetailOfLatestRequest ==
    /\ [](details # << >> => detailLoading)
    /\ [][(DetailSettling /\ ~newestDetail) =>
            detailEntry' = detailEntry]_vars

====
